---- MODULE Spec2Model ----
(***************************************************************************)
(* RemoteAchiko.cpp: a native bootstrapper DLL.  DllMain spawns            *)
(* BootstrapThread on attach; the worker brings up the CLR and invokes     *)
(* AchikoDLL.Loader.Start; LogToPipe lazily opens a named pipe and writes  *)
(* each line with two WriteFile calls; detach logs and closes the pipe.    *)
(*                                                                         *)
(* Two threads are modelled: "main" (the thread the loader calls DllMain   *)
(* on) and "worker" (BootstrapThread).  Every access to a process-wide     *)
(* variable (g_hModule, g_hPipe, g_clrHost) is one step, so the            *)
(* unsynchronised accesses of the two threads interleave freely.           *)
(***************************************************************************)
EXTENDS Integers, Sequences, FiniteSets

(* ------------------------------ bounds --------------------------------- *)
\* longest module file name GetModuleFileNameW returns, in path elements
MaxPathLen == 2

(* ------------------------- program constants --------------------------- *)
NULL == 0
INVALID_HANDLE_VALUE == -1
nullptr == "nullptr"
MAX_PATH == 260
DLL_PROCESS_DETACH == 0
DLL_PROCESS_ATTACH == 1
DLL_THREAD_ATTACH == 2
DLL_THREAD_DETACH == 3
S_OK == 0
E_FAIL == -2147467259
\* the module handle the loader passes to DllMain
hModule == 4194304

HResults == {S_OK, E_FAIL}
FAILED(h) == h < 0
SUCCEEDED(h) == h >= 0

Threads == {"main", "worker"}

VARIABLES
  g_hModule,      \* static HMODULE g_hModule
  g_hPipe,        \* static HANDLE g_hPipe
  g_clrHost,      \* static ICLRRuntimeHost* g_clrHost
  pc,             \* [Threads -> label]: the statement each thread is at
  lpc,            \* [Threads -> label]: position inside LogToPipe, "out" when not in it
  hr,             \* BootstrapThread: HRESULT hr
  returnCode,     \* BootstrapThread: DWORD returnCode
  metaHost,       \* BootstrapThread: ICLRMetaHost* metaHost
  runtimeInfo,    \* BootstrapThread: ICLRRuntimeInfo* runtimeInfo
  managedPath,    \* BootstrapThread: wchar_t managedPath[MAX_PATH]
  retVal,         \* value BootstrapThread returned, -1 while it has not returned
  reason,         \* DllMain: the reason argument of the call in progress, -1 outside
  loader,         \* loader: "unloaded", "attaching", "attached", "detaching" or
                  \*   "detached"; "attaching_quiet" and "attached_quiet" when thread
                  \*   notifications are disabled for the module
  rets,           \* history: the values DllMain has returned
  calls,          \* history: [Threads -> Seq of API calls made]
  issued,         \* history: [Threads -> Seq of log call sites entered]
  handleTab,      \* OS: the pipe handles CreateFileA has returned, handle h is entry h:
                  \*   open - not yet passed to CloseHandle
                  \*   live - the listener it was connected to is still serving
  firstOpen,      \* history: outcome of the first CreateFileA, "none" before it
  openedEarly,    \* history: a log call made before the detach notification arrived
                  \*   has opened the pipe
  listenerUp,     \* environment: a listener is serving the pipe and accepts a client
  stream,         \* environment: the last two writes the serving listener received
  payloadExists   \* environment: AchikoDLL.dll exists next to the module

vars == <<g_hModule, g_hPipe, g_clrHost, pc, lpc, hr, returnCode,
          metaHost, runtimeInfo, managedPath, retVal, reason, loader, rets,
          calls, issued, handleTab, firstOpen, openedEarly, listenerUp, stream,
          payloadExists>>

globals == <<g_hModule, g_hPipe, g_clrHost>>
wlocals == <<hr, returnCode, metaHost, runtimeInfo, managedPath, retVal>>
history == <<firstOpen, openedEarly>>
logvars == <<lpc, issued, handleTab, firstOpen, openedEarly, stream>>
envvars == <<listenerUp, payloadExists>>
mainvars == <<reason, loader, rets>>

Init ==
  /\ g_hModule = NULL
  /\ g_hPipe = INVALID_HANDLE_VALUE
  /\ g_clrHost = nullptr
  /\ pc = [t \in Threads |-> IF t = "main" THEN "idle" ELSE "none"]
  /\ lpc = [t \in Threads |-> "out"]
  /\ hr = S_OK
  /\ returnCode = 0
  /\ metaHost = nullptr
  /\ runtimeInfo = nullptr
  /\ managedPath = <<>>
  /\ retVal = -1
  /\ reason = -1
  /\ loader = "unloaded"
  /\ rets = {}
  /\ calls = [t \in Threads |-> <<>>]
  /\ issued = [t \in Threads |-> <<>>]
  /\ handleTab = <<>>
  /\ firstOpen = "none"
  /\ openedEarly = FALSE
  /\ listenerUp = FALSE
  /\ stream = <<>>
  /\ payloadExists \in BOOLEAN


(* ------------------------------ helpers -------------------------------- *)
Call(api, obj, res) == [api |-> api, obj |-> obj, res |-> res]

\* the calls of one API made so far by the worker, as indices into its history
CallsOf(api) ==
  {i \in 1..Len(calls["worker"]) : calls["worker"][i].api = api}

\* the same for the thread DllMain runs on
MainCallsOf(api) ==
  {i \in 1..Len(calls["main"]) : calls["main"][i].api = api}

IsOpen(h) == h \in 1..Len(handleTab) /\ handleTab[h].open

OpenHandles == {h \in 1..Len(handleTab) : handleTab[h].open}

\* a write reaches a listener when the handle is open and the listener it
\* was connected to is still serving
Connected(h) == IsOpen(h) /\ handleTab[h].live

\* the worker's code runs only while the module is mapped: once the detach
\* notification has returned the module is unloaded (or the process is gone)
Mapped == loader # "detached"

CanRun(t) == t = "main" \/ Mapped

(* ------------------------------ LogToPipe ------------------------------ *)
\* the statements that are LogToPipe calls
WorkerLogSites == {"L181", "L182", "L183", "L194", "L206", "L216", "L225", "L234",
                   "L242", "L246", "L272", "L273", "L274", "L278", "L279", "L293"}
MainLogSites == {"L345", "L346", "L347"}
LogSites == WorkerLogSites \cup MainLogSites

\* variant in which the failure branch of line 276 goes back to the invocation
LogNext_Retry(l) ==
  CASE l = "L181" -> "L182"
    [] l = "L182" -> "L183"
    [] l = "L183" -> "L191"
    [] l = "L194" -> "L195"
    [] l = "L206" -> "L207"
    [] l = "L216" -> "L217"
    [] l = "L225" -> "L226"
    [] l = "L234" -> "L240"
    [] l = "L242" -> "L243"
    [] l = "L246" -> "L259"
    [] l = "L272" -> "L273"
    [] l = "L273" -> "L274"
    [] l = "L274" -> "L293"
    [] l = "L278" -> "L279"
    [] l = "L279" -> "L259"
    [] l = "L293" -> "L294"
    [] l = "L345" -> "L346"
    [] l = "L346" -> "L347"
    [] l = "L347" -> "L350"

\* the statement that follows each LogToPipe call
LogNext(l) ==
  CASE l = "L181" -> "L182"
    [] l = "L182" -> "L183"
    [] l = "L183" -> "L191"
    [] l = "L194" -> "L195"
    [] l = "L206" -> "L207"
    [] l = "L216" -> "L217"
    [] l = "L225" -> "L226"
    [] l = "L234" -> "L240"
    [] l = "L242" -> "L243"
    [] l = "L246" -> "L259"
    [] l = "L272" -> "L273"
    [] l = "L273" -> "L274"
    [] l = "L274" -> "L293"
    [] l = "L278" -> "L279"
    [] l = "L279" -> "L293"
    [] l = "L293" -> "L294"
    [] l = "L345" -> "L346"
    [] l = "L346" -> "L347"
    [] l = "L347" -> "L350"

\* a thread calls LogToPipe; line 73: if (g_hPipe == INVALID_HANDLE_VALUE)
LogToPipe_L73(t) ==
  /\ CanRun(t)
  /\ pc[t] \in LogSites
  /\ lpc[t] = "out"
  /\ lpc' = [lpc EXCEPT ![t] = IF g_hPipe = INVALID_HANDLE_VALUE THEN "L75" ELSE "L99"]
  /\ issued' = [issued EXCEPT ![t] = Append(@, pc[t])]
  /\ UNCHANGED <<globals, pc, wlocals, mainvars, calls, handleTab, history, stream,
                 envvars>>

\* lines 75-83: g_hPipe = CreateFileA(...) on the pipe, which must already
\* exist (OPEN_EXISTING).  The call and the store of its result are one step:
\* the new handle is known to nobody else before it is stored.
LogToPipe_CreateFileA(t) ==
  /\ CanRun(t)
  /\ lpc[t] = "L75"
  /\ handleTab' = IF listenerUp
                    THEN Append(handleTab, [open |-> TRUE, live |-> TRUE])
                    ELSE handleTab
  /\ g_hPipe' = IF listenerUp THEN Len(handleTab) + 1 ELSE INVALID_HANDLE_VALUE
  /\ firstOpen' = IF firstOpen # "none" THEN firstOpen
                   ELSE IF listenerUp THEN "opened" ELSE "failed"
  /\ openedEarly' = (openedEarly \/ (listenerUp /\ loader # "detaching"))
  /\ lpc' = [lpc EXCEPT ![t] = "L86"]
  /\ UNCHANGED <<g_hModule, g_clrHost, pc, wlocals, mainvars, calls, issued, stream,
                 envvars>>

\* variant of lines 86-87 without the early return
LogToPipe_L86_NoReturn(t) ==
  /\ CanRun(t)
  /\ lpc[t] = "L86"
  /\ lpc' = [lpc EXCEPT ![t] = "L99"]
  /\ UNCHANGED <<globals, pc, wlocals, mainvars, calls, issued, handleTab, history,
                 stream, envvars>>

\* lines 86-87: if (g_hPipe == INVALID_HANDLE_VALUE) return;
LogToPipe_L86(t) ==
  /\ CanRun(t)
  /\ lpc[t] = "L86"
  /\ IF g_hPipe = INVALID_HANDLE_VALUE
       THEN /\ lpc' = [lpc EXCEPT ![t] = "out"]
            /\ pc' = [pc EXCEPT ![t] = LogNext(@)]
       ELSE /\ lpc' = [lpc EXCEPT ![t] = "L99"]
            /\ pc' = pc
  /\ UNCHANGED <<globals, wlocals, mainvars, calls, issued, handleTab, history,
                 stream, envvars>>

LastTwo(s) == IF Len(s) <= 2 THEN s ELSE SubSeq(s, Len(s) - 1, Len(s))

\* WriteFile(g_hPipe, ...): the handle is read from g_hPipe at the call
\* and the write fails when the handle is not open or the listener is gone
WriteFile(t, part) ==
  LET h == g_hPipe IN
    stream' = IF Connected(h)
                THEN LastTwo(Append(stream, [h |-> h, t |-> t, seq |-> Len(issued[t]),
                                             part |-> part]))
                ELSE stream

\* lines 91-99: format the message and write it
LogToPipe_L99(t) ==
  /\ CanRun(t)
  /\ lpc[t] = "L99"
  /\ WriteFile(t, "text")
  /\ lpc' = [lpc EXCEPT ![t] = "L100"]
  /\ UNCHANGED <<globals, pc, wlocals, mainvars, calls, issued, handleTab, history,
                 envvars>>

\* line 100: write the "\r\n" terminator and return
LogToPipe_L100(t) ==
  /\ CanRun(t)
  /\ lpc[t] = "L100"
  /\ WriteFile(t, "CRLF")
  /\ lpc' = [lpc EXCEPT ![t] = "out"]
  /\ pc' = [pc EXCEPT ![t] = LogNext(@)]
  /\ UNCHANGED <<globals, wlocals, mainvars, calls, issued, handleTab, history,
                 envvars>>

LogToPipe(t) ==
  \/ LogToPipe_L73(t)
  \/ LogToPipe_CreateFileA(t)
  \/ LogToPipe_L86(t)
  \/ LogToPipe_L99(t)
  \/ LogToPipe_L100(t)


(* --------------------------- BuildManagedPath --------------------------- *)
PathChars == {"\\", "x"}

\* the file names GetModuleFileNameW can return; the empty one stands for
\* its failure (return value 0)
ModulePaths == UNION {[1..n -> PathChars] : n \in 0..MaxPathLen}

\* L"AchikoDLL.dll"
ManagedName == <<"A", "c", "h", "i", "k", "o", "D", "L", "L", ".", "d", "l", "l">>

\* wcsrchr(ourPath, L'\\'): index of the last backslash, 0 when there is none
wcsrchr(p) ==
  LET S == {i \in 1..Len(p) : p[i] = "\\"} IN
    IF S = {} THEN 0 ELSE CHOOSE i \in S : \A j \in S : j <= i

\* a string copied into a buffer of n characters keeps at most n-1 of them
Truncate(p, n) == IF Len(p) <= n - 1 THEN p ELSE SubSeq(p, 1, n - 1)

StringCchCatW(dst, n, src) == Truncate(dst \o src, n)
StringCchCopyW(n, src) == Truncate(src, n)

\* BuildManagedPath(outPath, outSize) with GetModuleFileNameW having produced
\* ourPath: <<returned bool, outPath>>
BuildManagedPath(ourPath, outSize) ==
  IF Len(ourPath) = 0 THEN <<FALSE, <<>>>>
  ELSE IF wcsrchr(ourPath) = 0 THEN <<FALSE, <<>>>>
  ELSE <<TRUE, StringCchCopyW(outSize,
                 StringCchCatW(SubSeq(ourPath, 1, wcsrchr(ourPath)), MAX_PATH, ManagedName))>>

(* ---------------------------- BootstrapThread --------------------------- *)
WAt(l) == Mapped /\ pc["worker"] = l /\ lpc["worker"] = "out"

WGoto(l) == pc' = [pc EXCEPT !["worker"] = l]

WCall(api, obj, res) == calls' = [calls EXCEPT !["worker"] = Append(@, Call(api, obj, res))]

\* line 191: CLRCreateInstance, and the test of line 192
CLRCreateInstance ==
  /\ WAt("L191")
  /\ \E h \in HResults :
       /\ hr' = h
       /\ metaHost' = IF SUCCEEDED(h) THEN "metaHost" ELSE nullptr
       /\ WCall("CLRCreateInstance", "", h)
       /\ WGoto(IF FAILED(h) THEN "L194" ELSE "L202")
  /\ UNCHANGED <<globals, logvars, returnCode, runtimeInfo, managedPath, retVal,
                 mainvars, envvars>>

\* line 202: metaHost->GetRuntime
GetRuntime ==
  /\ WAt("L202")
  /\ \E h \in HResults :
       /\ hr' = h
       /\ runtimeInfo' = IF SUCCEEDED(h) THEN "runtimeInfo" ELSE nullptr
       /\ WCall("GetRuntime", metaHost, h)
  /\ WGoto("L203")
  /\ UNCHANGED <<globals, logvars, returnCode, metaHost, managedPath, retVal,
                 mainvars, envvars>>

\* variant of lines 203-208 without the test of hr
ReleaseMetaHost_NoCheck ==
  /\ WAt("L203")
  /\ WCall("Release", metaHost, 0)
  /\ WGoto("L213")
  /\ UNCHANGED <<globals, logvars, wlocals, mainvars, envvars>>

\* line 203: metaHost->Release(), and the test of line 204
ReleaseMetaHost ==
  /\ WAt("L203")
  /\ WCall("Release", metaHost, 0)
  /\ WGoto(IF FAILED(hr) THEN "L206" ELSE "L213")
  /\ UNCHANGED <<globals, logvars, wlocals, mainvars, envvars>>

\* line 213: runtimeInfo->GetInterface(..., &g_clrHost), and the test of line 214
GetInterface ==
  /\ WAt("L213")
  /\ \E h \in HResults :
       /\ hr' = h
       /\ g_clrHost' = IF SUCCEEDED(h) THEN "host" ELSE nullptr
       /\ WCall("GetInterface", runtimeInfo, h)
       /\ WGoto(IF FAILED(h) THEN "L216" ELSE "L222")
  /\ UNCHANGED <<g_hModule, g_hPipe, logvars, returnCode, metaHost, runtimeInfo,
                 managedPath, retVal, mainvars, envvars>>

\* variant of lines 217, 228, 232 in which the Start-failure branch forgets
\* the release of line 228
ReleaseRuntimeInfo_NotOnStartFailure ==
  /\ \E l \in {"L217", "L228", "L232"} :
       /\ WAt(l)
       /\ WGoto(CASE l = "L217" -> "L218" [] l = "L228" -> "L229" [] l = "L232" -> "L234")
       /\ IF l = "L228" THEN calls' = calls ELSE WCall("Release", runtimeInfo, 0)
  /\ UNCHANGED <<globals, logvars, wlocals, mainvars, envvars>>

\* lines 217, 228, 232: runtimeInfo->Release()
ReleaseRuntimeInfo ==
  /\ \E l \in {"L217", "L228", "L232"} :
       /\ WAt(l)
       /\ WGoto(CASE l = "L217" -> "L218" [] l = "L228" -> "L229" [] l = "L232" -> "L234")
  /\ WCall("Release", runtimeInfo, 0)
  /\ UNCHANGED <<globals, logvars, wlocals, mainvars, envvars>>

\* variant of lines 222-230 that goes on after a failed Start
Start_IgnoreFailure ==
  /\ WAt("L222")
  /\ \E h \in HResults :
       /\ hr' = h
       /\ WCall("Start", g_clrHost, h)
       /\ WGoto("L232")
  /\ UNCHANGED <<globals, logvars, returnCode, metaHost, runtimeInfo, managedPath,
                 retVal, mainvars, envvars>>

\* line 222: g_clrHost->Start(), and the test of line 223
Start ==
  /\ WAt("L222")
  /\ \E h \in HResults :
       /\ hr' = h
       /\ WCall("Start", g_clrHost, h)
       /\ WGoto(IF FAILED(h) THEN "L225" ELSE "L232")
  /\ UNCHANGED <<globals, logvars, returnCode, metaHost, runtimeInfo, managedPath,
                 retVal, mainvars, envvars>>

\* line 226: g_clrHost->Release()
ReleaseClrHost ==
  /\ WAt("L226")
  /\ WCall("Release", g_clrHost, 0)
  /\ WGoto("L227")
  /\ UNCHANGED <<globals, logvars, wlocals, mainvars, envvars>>

\* variant of line 227 that leaves the pointer as it is
ClearClrHost_Skip ==
  /\ WAt("L227")
  /\ g_clrHost' = g_clrHost
  /\ WGoto("L228")
  /\ UNCHANGED <<g_hModule, g_hPipe, logvars, wlocals, mainvars, calls, envvars>>

\* line 227: g_clrHost = nullptr
ClearClrHost ==
  /\ WAt("L227")
  /\ g_clrHost' = nullptr
  /\ WGoto("L228")
  /\ UNCHANGED <<g_hModule, g_hPipe, logvars, wlocals, mainvars, calls, envvars>>

\* variant of lines 240-244 that goes on when the path could not be built
CallBuildManagedPath_NoCheck ==
  /\ WAt("L240")
  /\ \E ourPath \in ModulePaths :
       LET r == BuildManagedPath(ourPath, MAX_PATH) IN
         /\ calls' = [calls EXCEPT !["worker"] =
                        @ \o <<Call("GetModuleFileNameW", "", g_hModule),
                               Call("BuildManagedPath", "", IF r[1] THEN 1 ELSE 0)>>]
         /\ managedPath' = r[2]
         /\ WGoto("L246")
  /\ UNCHANGED <<globals, logvars, hr, returnCode, metaHost, runtimeInfo, retVal,
                 mainvars, envvars>>

\* line 240: BuildManagedPath(managedPath, MAX_PATH); GetModuleFileNameW is
\* called on the value g_hModule holds
CallBuildManagedPath ==
  /\ WAt("L240")
  /\ \E ourPath \in ModulePaths :
       LET r == BuildManagedPath(ourPath, MAX_PATH) IN
         /\ calls' = [calls EXCEPT !["worker"] =
                        @ \o <<Call("GetModuleFileNameW", "", g_hModule),
                               Call("BuildManagedPath", "", IF r[1] THEN 1 ELSE 0)>>]
         /\ managedPath' = r[2]
         /\ WGoto(IF r[1] THEN "L246" ELSE "L242")
  /\ UNCHANGED <<globals, logvars, hr, returnCode, metaHost, runtimeInfo, retVal,
                 mainvars, envvars>>

\* variant of the test of line 270 that does not look at returnCode
LoaderStarted_HrOnly(h, rc) == SUCCEEDED(h)

\* variant of the test of line 270 with || in place of &&
LoaderStarted_Or(h, rc) == SUCCEEDED(h) \/ rc = 0

\* line 270: if (SUCCEEDED(hr) && returnCode == 0)
LoaderStarted(h, rc) == SUCCEEDED(h) /\ rc = 0

\* lines 258-265: g_clrHost->ExecuteInDefaultAppDomain(managedPath,
\* L"AchikoDLL.Loader", L"Start", L"", &returnCode), and the test of line 270.
\* The call fails when the assembly file is not there; returnCode is written
\* only when the method ran.
ExecuteInDefaultAppDomain ==
  /\ WAt("L259")
  /\ \E h \in (IF payloadExists THEN HResults ELSE {E_FAIL}), rc \in {0, 1} :
       /\ rc = 0 \/ SUCCEEDED(h)
       /\ hr' = h
       /\ returnCode' = rc
       /\ WCall("ExecuteInDefaultAppDomain", "", h)
       /\ WGoto(IF LoaderStarted(h, rc) THEN "L272" ELSE "L278")
  /\ UNCHANGED <<globals, logvars, metaHost, runtimeInfo, managedPath, retVal,
                 mainvars, envvars>>

\* lines 195, 207, 218, 229, 243, 294: return 0
ReturnSites == {"L195", "L207", "L218", "L229", "L243", "L294"}

Return0 ==
  /\ \E l \in ReturnSites : WAt(l)
  /\ retVal' = 0
  /\ WGoto("done")
  /\ UNCHANGED <<globals, logvars, hr, returnCode, metaHost, runtimeInfo, managedPath,
                 mainvars, calls, envvars>>

BootstrapThread ==
  \/ CLRCreateInstance
  \/ GetRuntime
  \/ ReleaseMetaHost
  \/ GetInterface
  \/ ReleaseRuntimeInfo
  \/ Start
  \/ ReleaseClrHost
  \/ ClearClrHost
  \/ CallBuildManagedPath
  \/ ExecuteInDefaultAppDomain
  \/ Return0


(* -------------------------------- DllMain ------------------------------- *)
MAt(l) == pc["main"] = l /\ lpc["main"] = "out"

MGoto(l) == pc' = [pc EXCEPT !["main"] = l]

MCall(api, obj, res) == calls' = [calls EXCEPT !["main"] = Append(@, Call(api, obj, res))]

\* the notifications the loader can deliver now: attach once and first,
\* detach once and last, thread notifications in between unless disabled
Deliverable ==
  CASE loader = "unloaded" -> {DLL_PROCESS_ATTACH}
    [] loader = "attached" -> {DLL_PROCESS_DETACH, DLL_THREAD_ATTACH, DLL_THREAD_DETACH}
    [] loader = "attached_quiet" -> {DLL_PROCESS_DETACH}
    [] OTHER -> {}

\* variant of the switch in which the detach case runs the attach branch
Switch_AttachOnDetach(r) ==
  CASE r = DLL_PROCESS_ATTACH -> "L330"
    [] r = DLL_PROCESS_DETACH -> "L330"
    [] OTHER -> "L363"

\* line 324: switch (reason)
Switch(r) ==
  CASE r = DLL_PROCESS_ATTACH -> "L330"
    [] r = DLL_PROCESS_DETACH -> "L345"
    [] OTHER -> "L363"

\* the loader calls DllMain(hModule, r, lpReserved)
DllMain_Call ==
  /\ MAt("idle")
  /\ \E r \in Deliverable :
       /\ reason' = r
       /\ loader' = CASE r = DLL_PROCESS_ATTACH -> "attaching"
                       [] r = DLL_PROCESS_DETACH -> "detaching"
                       [] OTHER -> loader
       /\ MGoto(Switch(r))
  /\ UNCHANGED <<globals, logvars, wlocals, rets, calls, envvars>>

\* variant of line 330 that does not store the handle
DllMain_StoreModule_Skip ==
  /\ MAt("L330")
  /\ g_hModule' = g_hModule
  /\ MGoto("L333")
  /\ UNCHANGED <<g_hPipe, g_clrHost, logvars, wlocals, mainvars, calls, envvars>>

\* line 330: g_hModule = hModule
DllMain_StoreModule ==
  /\ MAt("L330")
  /\ g_hModule' = hModule
  /\ MGoto("L333")
  /\ UNCHANGED <<g_hPipe, g_clrHost, logvars, wlocals, mainvars, calls, envvars>>

\* line 333: DisableThreadLibraryCalls(hModule); it can fail, and the result
\* is not looked at
DisableThreadLibraryCalls ==
  /\ MAt("L333")
  /\ \E ok \in BOOLEAN : loader' = IF ok THEN "attaching_quiet" ELSE loader
  /\ MCall("DisableThreadLibraryCalls", "", hModule)
  /\ MGoto("L338")
  /\ UNCHANGED <<globals, logvars, wlocals, reason, rets, envvars>>

\* line 338: CreateThread(NULL, 0, BootstrapThread, NULL, 0, NULL); the new
\* thread starts at the first statement of BootstrapThread
CreateThread ==
  /\ MAt("L338")
  /\ pc' = [pc EXCEPT !["main"] = "L363", !["worker"] = "L181"]
  /\ MCall("CreateThread", "BootstrapThread", 0)
  /\ UNCHANGED <<globals, logvars, wlocals, mainvars, envvars>>

\* variant of line 350 that closes without the test
DllMain_L350_NoTest ==
  /\ MAt("L350")
  /\ MGoto("L352")
  /\ UNCHANGED <<globals, logvars, wlocals, mainvars, calls, envvars>>

\* line 350: if (g_hPipe != INVALID_HANDLE_VALUE)
DllMain_L350 ==
  /\ MAt("L350")
  /\ MGoto(IF g_hPipe # INVALID_HANDLE_VALUE THEN "L352" ELSE "L363")
  /\ UNCHANGED <<globals, logvars, wlocals, mainvars, calls, envvars>>

\* line 352: CloseHandle(g_hPipe)
CloseHandle ==
  /\ MAt("L352")
  /\ handleTab' = IF IsOpen(g_hPipe)
                    THEN [handleTab EXCEPT ![g_hPipe].open = FALSE]
                    ELSE handleTab
  /\ MCall("CloseHandle", "pipe", g_hPipe)
  /\ MGoto("L353")
  /\ UNCHANGED <<globals, lpc, issued, history, stream, wlocals, mainvars, envvars>>

\* line 353: g_hPipe = INVALID_HANDLE_VALUE
DllMain_ClearPipe ==
  /\ MAt("L353")
  /\ g_hPipe' = INVALID_HANDLE_VALUE
  /\ MGoto("L363")
  /\ UNCHANGED <<g_hModule, g_clrHost, logvars, wlocals, mainvars, calls, envvars>>

\* line 363: return TRUE
DllMain_Return ==
  /\ MAt("L363")
  /\ rets' = rets \cup {"TRUE"}
  /\ loader' = CASE loader = "attaching" -> "attached"
                  [] loader = "attaching_quiet" -> "attached_quiet"
                  [] loader = "detaching" -> "detached"
                  [] OTHER -> loader
  /\ reason' = -1
  /\ MGoto("idle")
  /\ UNCHANGED <<globals, logvars, wlocals, calls, envvars>>

DllMain ==
  \/ DllMain_Call
  \/ DllMain_StoreModule
  \/ DisableThreadLibraryCalls
  \/ CreateThread
  \/ DllMain_L350
  \/ CloseHandle
  \/ DllMain_ClearPipe
  \/ DllMain_Return

(* ------------------------------ environment ----------------------------- *)
\* the monitoring UI creates the pipe and starts serving it
ListenerStart ==
  /\ ~listenerUp
  /\ listenerUp' = TRUE
  /\ UNCHANGED <<globals, pc, logvars, wlocals, mainvars, calls, payloadExists>>

\* the monitoring UI goes away; handles connected to it stay open but dead
ListenerStop ==
  /\ listenerUp
  /\ listenerUp' = FALSE
  /\ handleTab' = [h \in 1..Len(handleTab) |-> [handleTab[h] EXCEPT !.live = FALSE]]
  /\ stream' = <<>>
  /\ UNCHANGED <<globals, pc, lpc, issued, history, wlocals, mainvars, calls,
                 payloadExists>>

Next ==
  \/ DllMain
  \/ BootstrapThread
  \/ \E t \in Threads : LogToPipe(t)
  \/ ListenerStart
  \/ ListenerStop

Spec == Init /\ [][Next]_vars


(* ------------------------------- properties ----------------------------- *)
WorkerIssued(l) == \E i \in 1..Len(issued["worker"]) : issued["worker"][i] = l

Made(api) == CallsOf(api) # {}

FailedCall(api) == \E i \in CallsOf(api) : FAILED(calls["worker"][i].res)

HostingAPIs == {"CLRCreateInstance", "GetRuntime", "GetInterface", "Start",
                "ExecuteInDefaultAppDomain"}

\* the log lines that report a failed bring-up step
FailureLines == {"L194", "L206", "L216", "L225", "L242", "L278"}

WorkerDone == pc["worker"] = "done"

\* C1 as stated: in a run where AchikoDLL.dll does not exist the worker makes
\* none of the five runtime-hosting calls.
C1_NoHostingCallWithoutPayload ==
  ~payloadExists => \A a \in HostingAPIs : ~Made(a)

\* C1 amended: the worker never looks for the file, so the hosting calls are
\* made all the same; with the file absent the invocation, when reached,
\* fails, the worker then logs the "Loader.Start() FAILED" line and never the
\* "succeeded" line, and a worker that has terminated has logged an error.
C1_AbsentPayloadFailsAtInvocation ==
  ~payloadExists =>
     /\ ~WorkerIssued("L272")
     /\ \A i \in CallsOf("ExecuteInDefaultAppDomain") : FAILED(calls["worker"][i].res)
     /\ WorkerDone => \E l \in FailureLines : WorkerIssued(l)
     /\ (WorkerDone /\ Made("ExecuteInDefaultAppDomain")) => WorkerIssued("L278")

C1_Witness ==
  ~payloadExists /\ WorkerDone /\ Made("Start") /\ Made("ExecuteInDefaultAppDomain")

\* C2 as stated: Release is never called on the runtime host, by either thread.
C2_HostNeverReleased ==
  \A t \in Threads : \A i \in 1..Len(calls[t]) :
     ~(calls[t][i].api = "Release" /\ calls[t][i].obj = "host")

\* C3 as stated: when the invocation with the empty argument fails the entry
\* method is invoked a second time with a non-empty argument and then no
\* more, so never more than twice.
C3_RetriesOnceOnFailure ==
  /\ Cardinality(CallsOf("ExecuteInDefaultAppDomain")) <= 2
  /\ (WorkerDone /\ WorkerIssued("L278")) =>
        /\ Cardinality(CallsOf("ExecuteInDefaultAppDomain")) = 2
        /\ \E i \in CallsOf("ExecuteInDefaultAppDomain") : calls["worker"][i].obj # ""

\* C3 amended: there is no retry.  The entry method is invoked at most once,
\* always with the empty-string argument; when that invocation fails the
\* worker logs the failure and makes no further call.
C3_NoRetry ==
  /\ Cardinality(CallsOf("ExecuteInDefaultAppDomain")) <= 1
  /\ \A i \in CallsOf("ExecuteInDefaultAppDomain") : calls["worker"][i].obj = ""
  /\ WorkerIssued("L278") =>
        /\ CallsOf("ExecuteInDefaultAppDomain") = {Len(calls["worker"])}
        /\ ~LoaderStarted(hr, returnCode)

C3_Witness ==
  WorkerDone /\ WorkerIssued("L278") /\ payloadExists /\ ~FailedCall("Start")

\* C4: when CLRCreateInstance or GetRuntime has failed, the worker never calls
\* GetInterface, Start or ExecuteInDefaultAppDomain, and once it has
\* terminated it has logged the failure of that step.
C4_NoStartAfterLocatorFailure ==
  (FailedCall("CLRCreateInstance") \/ FailedCall("GetRuntime")) =>
     /\ ~Made("GetInterface") /\ ~Made("Start") /\ ~Made("ExecuteInDefaultAppDomain")
     /\ WorkerDone =>
          WorkerIssued(IF FailedCall("CLRCreateInstance") THEN "L194" ELSE "L206")

C4_Witness == WorkerDone /\ FailedCall("GetRuntime")


CloseCalled == MainCallsOf("CloseHandle") # {}

C5_ClosedOnlyIfOpened ==
  /\ CloseCalled => handleTab # <<>>
  /\ Cardinality(MainCallsOf("CloseHandle")) <= 1

\* what C5 amended says of a step: detach goes on to CloseHandle exactly when
\* g_hPipe holds a handle at the test of line 350
C5_ClosedIffHeldAtTest ==
  (MAt("L350") /\ pc'["main"] # "L350") =>
     (pc'["main"] = "L352" <=> g_hPipe # INVALID_HANDLE_VALUE)

C6_FirstFailureIsFinal ==
  firstOpen = "failed" => (handleTab = <<>> /\ stream = <<>>)

\* C6 amended: a log call never blocks, and while no open has succeeded no
\* write is attempted and nothing is delivered; the failure is not remembered,
\* so a later log call opens the channel once the listener is there.
C6_NoWriteUntilOpened ==
  /\ \A t \in Threads : (CanRun(t) /\ lpc[t] # "out") => ENABLED LogToPipe(t)
  /\ handleTab = <<>> =>
        /\ stream = <<>>
        /\ g_hPipe = INVALID_HANDLE_VALUE
        /\ \A t \in Threads : lpc[t] \notin {"L99", "L100"}

C6_Witness == firstOpen = "failed" /\ stream # <<>>

\* references to the runtime host acquired and not released
HostRefs ==
  Cardinality({i \in CallsOf("GetInterface") : SUCCEEDED(calls["worker"][i].res)})
  - Cardinality({i \in CallsOf("Release") : calls["worker"][i].obj = "host"})

\* C7 as stated: at most one pipe handle is open and at most one host
\* reference is held at any time, and every open pipe handle is the one in
\* g_hPipe (none has been overwritten without being closed).
C7_AtMostOneOfEachHandle ==
  /\ Cardinality(OpenHandles) <= 1
  /\ HostRefs <= 1
  /\ \A h \in OpenHandles : g_hPipe = h

\* C8: CreateThread has been called once per attach notification handled and
\* never otherwise, the worker exists exactly when it has been called, DllMain
\* returns TRUE only, and its return never waits for the worker.
C8_OneWorkerPerAttach ==
  /\ Cardinality(MainCallsOf("CreateThread")) =
       (IF \/ loader = "unloaded"
           \/ (loader \in {"attaching", "attaching_quiet"}
                 /\ pc["main"] \in {"L330", "L333", "L338"})
          THEN 0 ELSE 1)
  /\ pc["worker"] = "none" <=> MainCallsOf("CreateThread") = {}
  /\ rets \subseteq {"TRUE"}
  /\ MAt("L363") => ENABLED DllMain_Return

C8_Witness ==
  loader = "detached" /\ pc["worker"] = "L181" /\ lpc["worker"] = "out" /\ rets = {"TRUE"}

\* C9 as stated, for two consecutive writes a listener received on one
\* connection: a terminator follows the text of its own log call, a text
\* follows a terminator, and a thread's lines arrive in the order of its calls.
C9_LinesWholeAndInOrder ==
  (Len(stream) = 2 /\ stream[1].h = stream[2].h) =>
     /\ stream[2].part = "CRLF" =>
          (stream[1].part = "text" /\ stream[1].t = stream[2].t
             /\ stream[1].seq = stream[2].seq)
     /\ stream[2].part = "text" => stream[1].part = "CRLF"
     /\ stream[1].t = stream[2].t => stream[1].seq <= stream[2].seq

\* the bring-up steps in their order, and the line that reports the failure of each
Steps == <<"CLRCreateInstance", "GetRuntime", "GetInterface", "Start",
           "BuildManagedPath", "ExecuteInDefaultAppDomain">>
StepFailureLine == <<"L194", "L206", "L216", "L225", "L242", "L278">>

IsStep(c) == \E i \in 1..Len(Steps) : c.api = Steps[i]

StepCalls == SelectSeq(calls["worker"], IsStep)

StepOk(c) ==
  CASE c.api = "BuildManagedPath" -> c.res = 1
    [] c.api = "ExecuteInDefaultAppDomain" -> LoaderStarted(c.res, returnCode)
    [] OTHER -> SUCCEEDED(c.res)

\* C10: the bring-up calls made are a prefix of the fixed sequence, each made
\* once and each but the last successful, so a failed step is followed by no
\* later step and no earlier step is run again; a worker that has terminated
\* returned 0 and, when its last step failed, has logged that step's failure.
C10_FailureIsTerminal ==
  LET S == StepCalls IN
    /\ Len(S) <= Len(Steps)
    /\ \A i \in 1..Len(S) :
          /\ S[i].api = Steps[i]
          /\ i < Len(S) => StepOk(S[i])
    /\ WorkerDone <=> retVal = 0
    /\ (WorkerDone /\ S # <<>> /\ ~StepOk(S[Len(S)])) =>
          WorkerIssued(StepFailureLine[Len(S)])

C10_Witness == WorkerDone /\ FailedCall("Start") /\ WorkerIssued("L225")

\* the handle in g_hPipe is open and was connected to a listener that has gone
HeldHandleDead == IsOpen(g_hPipe) /\ ~handleTab[g_hPipe].live

\* C11 as stated: a log call entered while a new listener is serving and the
\* handle held in g_hPipe belongs to a listener that has gone reconnects, that
\* is, it goes on to open the pipe again instead of writing on the dead handle.
C11_ReconnectsAfterRestart ==
  [][\A t \in Threads :
       (LogToPipe_L73(t) /\ listenerUp /\ HeldHandleDead) => lpc'[t] = "L75"]_vars

\* the worker has made a call of the API and every such call succeeded
Succeeded(api) ==
  /\ Made(api)
  /\ \A i \in CallsOf(api) : SUCCEEDED(calls["worker"][i].res)

\* C12: when the worker is about to invoke the entry method, or has invoked
\* it, CLRCreateInstance, GetRuntime, GetInterface and Start have all been
\* called and have succeeded, the payload path has been built (so it ends in
\* the payload's file name), the host is the one GetInterface returned, and
\* the invocation comes after the successful Start; the entry method is never
\* invoked in a run where Start failed.
C12_InvokedOnlyAfterStartSucceeded ==
  (pc["worker"] = "L259" \/ Made("ExecuteInDefaultAppDomain")) =>
     /\ \A a \in {"CLRCreateInstance", "GetRuntime", "GetInterface", "Start"} :
           Succeeded(a)
     /\ \A i \in CallsOf("BuildManagedPath") : calls["worker"][i].res = 1
     /\ Made("BuildManagedPath")
     /\ Len(managedPath) > Len(ManagedName)
     /\ SubSeq(managedPath, Len(managedPath) - Len(ManagedName) + 1, Len(managedPath))
          = ManagedName
     /\ g_clrHost = "host"
     /\ HostRefs = 1
     /\ \A i \in CallsOf("ExecuteInDefaultAppDomain") :
           \A j \in CallsOf("Start") \cup CallsOf("BuildManagedPath") : j < i

C12_Witness ==
  WorkerDone /\ Made("ExecuteInDefaultAppDomain") /\ WorkerIssued("L272")

\* the Release calls the worker has made on an object
Releases(o) == {i \in CallsOf("Release") : calls["worker"][i].obj = o}

\* the calls of an API that returned an object
Acquisitions(api) == {i \in CallsOf(api) : SUCCEEDED(calls["worker"][i].res)}

\* an object acquired through the API is released at most once, after it was
\* acquired and after every call made on it, and exactly once by the time the
\* worker has terminated; an object that was not acquired is not released
ReleasedOnce(o, api) ==
  /\ Cardinality(Releases(o)) <= Cardinality(Acquisitions(api))
  /\ Cardinality(Acquisitions(api)) <= 1
  /\ \A i \in Releases(o) :
        /\ \A j \in Acquisitions(api) : j < i
        /\ \A j \in 1..Len(calls["worker"]) :
              (calls["worker"][j].obj = o /\ j # i) => j < i
  /\ WorkerDone => Cardinality(Releases(o)) = Cardinality(Acquisitions(api))

\* C13: the meta host and the runtime info object are each released exactly
\* once when they were acquired and never when they were not, whichever step
\* fails or succeeds; no Release is made through a null pointer.
C13_TemporariesReleasedOnce ==
  /\ ReleasedOnce("metaHost", "CLRCreateInstance")
  /\ ReleasedOnce("runtimeInfo", "GetRuntime")
  /\ Releases(nullptr) = {}

C13_Witness ==
  /\ WorkerDone
  /\ FailedCall("Start")
  /\ Cardinality(Releases("metaHost")) = 1
  /\ Cardinality(Releases("runtimeInfo")) = 1

\* number of times the worker has entered the log call of a line
TimesIssued(l) ==
  Cardinality({i \in 1..Len(issued["worker"]) : issued["worker"][i] = l})

\* C14: the 'succeeded' line (272) is issued only after an invocation that
\* returned a success status and left returnCode 0, the 'FAILED' line (278)
\* only after one that did not, never both and each at most once; once the
\* worker has terminated after reaching the invocation exactly one of the two
\* has been issued and so has the 'Bootstrap thread exiting' line (293); line
\* 293 is issued only after one of the two outcome lines, so in no run that
\* failed before the invocation.
C14_SuccessIffHrAndReturnCode ==
  /\ WorkerIssued("L272") =>
        Made("ExecuteInDefaultAppDomain") /\ SUCCEEDED(hr) /\ returnCode = 0
  /\ WorkerIssued("L278") =>
        Made("ExecuteInDefaultAppDomain") /\ ~(SUCCEEDED(hr) /\ returnCode = 0)
  /\ \A l \in {"L272", "L278", "L293"} : TimesIssued(l) <= 1
  /\ WorkerIssued("L293") => (WorkerIssued("L272") \/ WorkerIssued("L278"))
  /\ (WorkerDone /\ Made("ExecuteInDefaultAppDomain")) =>
        /\ WorkerIssued("L293")
        /\ WorkerIssued("L272") <=> (SUCCEEDED(hr) /\ returnCode = 0)
        /\ WorkerIssued("L278") <=> ~(SUCCEEDED(hr) /\ returnCode = 0)
  /\ (WorkerDone /\ ~Made("ExecuteInDefaultAppDomain")) =>
        /\ ~WorkerIssued("L293")
        /\ ~WorkerIssued("L272")
        /\ ~WorkerIssued("L278")

C14_Witness ==
  /\ WorkerDone
  /\ SUCCEEDED(hr) /\ returnCode = 1
  /\ WorkerIssued("L278") /\ WorkerIssued("L293")

\* g_hPipe holds a handle that has been passed to CloseHandle
HeldHandleClosed == g_hPipe \in 1..Len(handleTab) /\ ~handleTab[g_hPipe].open

\* a step in which thread t calls WriteFile (line 99 or line 100)
WriteStep(t) == LogToPipe_L99(t) \/ LogToPipe_L100(t)

\* C15 as stated: no thread calls WriteFile with a handle that detach has
\* passed to CloseHandle, and once the detach notification has returned no
\* pipe handle is open.
C15_NoWriteOnClosedHandle ==
  [][/\ \A t \in Threads : WriteStep(t) => ~HeldHandleClosed
     /\ (loader = "detached" => OpenHandles = {})']_vars

\* g_clrHost is null or points to a host reference acquired and not released
HostPointerSound == g_clrHost = nullptr \/ HostRefs = 1

C17_ModuleHandleSetBeforeWorker ==
  /\ g_hModule \in {NULL, hModule}
  /\ pc["worker"] # "none" => g_hModule = hModule
  /\ MainCallsOf("CreateThread") # {} => g_hModule = hModule
  /\ pc["main"] = "L330" => (g_hModule = NULL /\ pc["worker"] = "none")
  /\ \A i \in CallsOf("GetModuleFileNameW") : calls["worker"][i].res = hModule

C17_Witness ==
  /\ CallsOf("GetModuleFileNameW") # {}
  /\ g_hModule = hModule
  /\ managedPath # <<>>

====
